---- MODULE Spec2Model ----
(***************************************************************************)
(* Model of src/app/plan_c_app.py: the Plan C crash-judgement calculator.  *)
(* One run of the script is a sequence of steps, one per section of the    *)
(* script; the widget values and the market data the run reads are fixed   *)
(* when the run starts.  Amounts are integers in yen.                      *)
(*                                                                         *)
(* The script computes its amounts in IEEE-754 doubles and rounds them     *)
(* with Python's round().  A real number is held here as a record          *)
(*   [int, num, den, eps]  =  int + num/den  (0 <= num < den), moved by    *)
(* eps in {-1,0,1} units in the last place of the double that holds it.    *)
(* eps is worked out where the exact value lies exactly halfway between    *)
(* two multiples of 1000, the only place where it can change a result.     *)
(***************************************************************************)
EXTENDS Integers, Sequences, FiniteSets, TLC

(* ------------------------------------------------------------------ *)
(* Bounds of the model                                                 *)
(* ------------------------------------------------------------------ *)
MaxBaseSteps == 5
MaxUnits == 4
HoldingUnit == 2000

(* ------------------------------------------------------------------ *)
(* Configuration (lines 75-91)                                         *)
(* ------------------------------------------------------------------ *)
FUNDS == <<"jp_stock", "jp_reit", "jp_bond", "global_stock", "us_stock", "os_reit", "os_bond">>
FundId == {FUNDS[i] : i \in 1..Len(FUNDS)}
HOME == {"jp_stock", "jp_reit", "jp_bond"}
FOREIGN == {"global_stock", "us_stock", "os_reit", "os_bond"}

\* The ratios are the doubles nearest to these hundredths.
JP_RATIO == 30
OS_RATIO == 70
\* A table whose fractions no longer sum to 1 (global_stock entered as 0.45).
FUND_RATIOS_Skewed == [jp_stock |-> 15, jp_reit |-> 10, jp_bond |-> 5, global_stock |-> 45,
                       us_stock |-> 15, os_reit |-> 10, os_bond |-> 5]

FUND_RATIOS == [jp_stock |-> 15, jp_reit |-> 10, jp_bond |-> 5, global_stock |-> 40,
                us_stock |-> 15, os_reit |-> 10, os_bond |-> 5]
TSUMITATE_LIMIT == 100000

(* ------------------------------------------------------------------ *)
(* Double arithmetic                                                   *)
(* ------------------------------------------------------------------ *)
RECURSIVE Gcd(_, _)
Gcd(a, b) == IF b = 0 THEN a ELSE Gcd(b, a % b)

\* Largest k with 2^k <= v (v >= 1): the binary exponent of v.
RECURSIVE Log2Floor(_)
Log2Floor(v) == IF v < 2 THEN 0 ELSE 1 + Log2Floor(v \div 2)

RECURSIVE Pow2(_)
Pow2(k) == IF k <= 0 THEN 1 ELSE 2 * Pow2(k - 1)

\* Smallest m with s * 2^m >= T (0 < s <= T): s/T lies in [2^-m, 2^(1-m)).
RECURSIVE Shifts(_, _)
Shifts(s, T) == IF s >= T THEN 0 ELSE 1 + Shifts(2 * s, T)

\* (x * 2^j) mod T, by long division.
RECURSIVE Rem(_, _, _)
Rem(x, T, j) == IF j = 0 THEN x % T ELSE Rem((2 * x) % T, T, j - 1)

\* The double s / T (0 < s <= T, in lowest terms) has a 53-bit mantissa
\* M = floor(s * 2^(52+m) / T) rounded to nearest, ties to even.  QuotErr is
\* the rounding error (double - s/T) in units of the last place: sign * n / T.
QuotErr(s, T) ==
    LET m == Shifts(s, T)
        r == Rem(s, T, 52 + m)
        lastBit == IF 2 * Rem(s, T, 51 + m) >= T THEN 1 ELSE 0
    IN  IF r = 0 THEN [sign |-> 0, n |-> 0, m |-> m]
        ELSE IF 2 * r < T THEN [sign |-> -1, n |-> r, m |-> m]
        ELSE IF 2 * r > T THEN [sign |-> 1, n |-> T - r, m |-> m]
        ELSE IF lastBit = 0 THEN [sign |-> -1, n |-> r, m |-> m]
        ELSE [sign |-> 1, n |-> T - r, m |-> m]

\* floor(A * s / T) and (A * s) mod T without forming A * s.
MulDivFloor(A, s, T) == (A \div T) * s + ((A % T) * s) \div T
MulDivRem(A, s, T) == ((A % T) * s) % T

\* A * r > T * P, without forming the products.
GtProd(A, r, T, P) ==
    LET W == MulDivFloor(A, r, T)
    IN  W > P \/ (W = P /\ MulDivRem(A, r, T) > 0)

\* The exact value is a whole number of yen ending in 500: halfway between
\* two multiples of 1000.
IsTie(q, rn) == rn = 0 /\ q % 1000 = 500

\* Units in the last place by which the double product A * (s/T) differs
\* from the whole number q = A*s/T it should be: the quotient's error,
\* scaled by A, moves the product to the neighbouring double when it
\* exceeds half a unit in the last place of q.
ProductEps(A, s, T, q) ==
    LET e == QuotErr(s, T)
    IN  IF e.sign = 0 THEN 0
        ELSE IF GtProd(A, e.n, T, Pow2(Log2Floor(q) + e.m - 1)) THEN e.sign
        ELSE 0

\* `A * (s0 / T0)` in doubles, A >= 0 an integer and 0 < s0 <= T0 integers;
\* also `A * c` for a literal c = s0/T0 such as 0.15.
FloatMulRatio(A, s0, T0) ==
    LET g == Gcd(s0, T0)
        s == s0 \div g
        T == T0 \div g
        q == MulDivFloor(A, s, T)
        rn == MulDivRem(A, s, T)
    IN  [int |-> q, num |-> rn, den |-> T,
         eps |-> IF IsTie(q, rn) THEN ProductEps(A, s, T, q) ELSE 0]

\* `cf * (p1/100) / (p2/100)` in doubles, cf a multiple of 1000: the product
\* cf * (p1/100) is a whole number x; the divisor p2/100 carries its own
\* rounding error, which moves the quotient the other way.
FloatMulDiv(cf, p1, p2) ==
    LET x == (cf * p1) \div 100
        xeps == IF x > 0 /\ (cf * p1) % 100 = 0 THEN ProductEps(cf, p1 \div Gcd(p1, 100), 100 \div Gcd(p1, 100), x) ELSE 0
        g == Gcd(p2, 100)
        s == p2 \div g
        T == 100 \div g
        q == (cf * p1) \div p2
        rn == (cf * p1) % p2
        e == QuotErr(s, T)
        moved == 2 * e.n * q > s * Pow2(Log2Floor(q) + e.m)
    IN  [int |-> q, num |-> rn, den |-> p2,
         eps |-> IF ~IsTie(q, rn) THEN 0
                 ELSE IF xeps # 0 THEN xeps
                 ELSE IF e.sign # 0 /\ moved THEN 0 - e.sign
                 ELSE 0]

\* An integer amount as a value.
Whole(n) == [int |-> n, num |-> 0, den |-> 1, eps |-> 0]

\* Rounding that takes the higher multiple whenever the value is halfway.
round_half_up(value) ==
    LET r == value.int % 1000
        lo == value.int - r
    IN  IF r < 500 THEN lo
        ELSE IF r > 500 \/ value.num > 0 THEN lo + 1000
        ELSE IF value.eps < 0 THEN lo
        ELSE lo + 1000

\* int(round(value / 1000) * 1000), value >= 0: Python's round() takes the
\* nearest integer and, exactly halfway, the even one.
round_to_1000(value) ==
    LET r == value.int % 1000
        lo == value.int - r
    IN  IF r < 500 THEN lo
        ELSE IF r > 500 \/ value.num > 0 THEN lo + 1000
        ELSE IF value.eps < 0 THEN lo
        ELSE IF value.eps > 0 THEN lo + 1000
        ELSE IF (lo \div 1000) % 2 = 0 THEN lo
        ELSE lo + 1000

(* ------------------------------------------------------------------ *)
(* State                                                               *)
(* ------------------------------------------------------------------ *)
VARIABLES
    pc,                     \* the section of the script the run has reached
    \* inputs of the run: widget values and fetched market data
    base_amount, vix_data, buffett_jp, nikkei_hist, buffett_us, sp500_hist,
    current, rebalance_mode, min_purchase, additional_amount,
    \* regular allocation (lines 97-120)
    regular, global_stock_tsumitate, global_stock_growth, jp_total, os_total,
    crash_fund_jp, crash_fund_os,
    \* crash judgement (lines 143-317)
    vix_value, vix_condition,
    buffett_jp_condition, nikkei_change, nikkei_condition, jp_crash,
    buffett_us_condition, sp500_change, sp500_condition, us_crash,
    \* final judgement (lines 325-650)
    pattern, add, global_stock_add_tsumitate, global_stock_add_growth,
    fund_total, total_with_crash,
    \* rebalance calculator (lines 775-1335)
    total_current, target_jp, target_os, adjust_jp, adjust_os, target, adjust,
    balance, shortage_funds, next, total_investment, months_needed,
    fund_details, max_months, rebalance_result,
    \* LINE notification (lines 1342-1381)
    line_token, message, line_result

inputVars == <<base_amount, vix_data, buffett_jp, nikkei_hist, buffett_us, sp500_hist,
               current, rebalance_mode, min_purchase, additional_amount>>
allocVars == <<regular, global_stock_tsumitate, global_stock_growth, jp_total, os_total,
               crash_fund_jp, crash_fund_os>>
vixVars == <<vix_value, vix_condition>>
jpVars == <<buffett_jp_condition, nikkei_change, nikkei_condition, jp_crash>>
usVars == <<buffett_us_condition, sp500_change, sp500_condition, us_crash>>
patternVars == <<pattern, add, global_stock_add_tsumitate, global_stock_add_growth,
                 fund_total, total_with_crash>>
targetVars == <<total_current, target_jp, target_os, adjust_jp, adjust_os, target, adjust,
                balance, shortage_funds>>
planVars == <<next, total_investment, months_needed, fund_details, max_months>>
notifyVars == <<line_token, message, line_result>>
vars == <<pc, inputVars, allocVars, vixVars, jpVars, usVars, patternVars, targetVars,
          planVars, rebalance_result, notifyVars>>

Zero == [f \in FundId |-> 0]

\* Python's None is the empty tuple, a value v the tuple <<v>>.
None == << >>
Some(v) == <<v>>

(* ------------------------------------------------------------------ *)
(* Inputs of a run                                                     *)
(* ------------------------------------------------------------------ *)
\* base_amount: the number_input of lines 66-73 (min 10000, step 10000),
\* and amounts typed in between the steps.
BaseAmounts == {10000 + 10000 * i : i \in 0..MaxBaseSteps}
                 \cup {10500, 12000, 45000, 250000, 260000, 300000}

\* ^VIX history: the fetch raises, or returns closes (none, or the last one).
VixData == {[raised |-> TRUE, close |-> << >>], [raised |-> FALSE, close |-> << >>],
            [raised |-> FALSE, close |-> <<30>>], [raised |-> FALSE, close |-> <<31>>]}

\* An index history: the fetch raises, or returns `rows` rows of which the
\* last close and the close 60 rows back are read (closes of 0 included).
IndexHist == {[raised |-> TRUE, rows |-> 0, last |-> 0, ago |-> 0],
              [raised |-> FALSE, rows |-> 60, last |-> 0, ago |-> 0],
              [raised |-> FALSE, rows |-> 59, last |-> 80, ago |-> 100],
              [raised |-> FALSE, rows |-> 60, last |-> 80, ago |-> 100],
              [raised |-> FALSE, rows |-> 60, last |-> 81, ago |-> 100]}

Buffett == {79, 80}

QuietVix == [raised |-> FALSE, close |-> <<30>>]
QuietHist == [raised |-> FALSE, rows |-> 60, last |-> 81, ago |-> 100]

RECURSIVE SumOver(_, _)
SumOver(fn, S) == IF S = {} THEN 0
                  ELSE LET x == CHOOSE y \in S : TRUE IN fn[x] + SumOver(fn, S \ {x})

\* Holdings: every fund a multiple of HoldingUnit, at most MaxUnits units in all.
Holdings == {[f \in FundId |-> HoldingUnit * k[f]] :
                k \in {h \in [FundId -> 0..MaxUnits] : SumOver(h, FundId) <= MaxUnits}}

\* Holdings that sit exactly on their own targets: the targets of a total
\* whose seven rounded targets sum to that total again.
OnTargetTotals == {4000, 10000, 100000}
OnTargetHoldings ==
    {h \in {[f \in FundId |-> round_to_1000(FloatMulRatio(T, FUND_RATIOS[f], 100))] :
                T \in OnTargetTotals} : SumOver(h, FundId) \in OnTargetTotals}

\* Holdings far off their targets, in amounts that are not multiples of HoldingUnit.
SkewedHoldings ==
    {[jp_stock |-> 5000, jp_reit |-> 2000, jp_bond |-> 1000, global_stock |-> 50000,
      us_stock |-> 5000, os_reit |-> 0, os_bond |-> 1000]}

\* Holdings whose market-level adjustments lie at the 10000 threshold of the
\* balance classification.
BoundaryHoldings ==
    {[jp_stock |-> 14000, jp_reit |-> 0, jp_bond |-> 0, global_stock |-> 3000,
      us_stock |-> 0, os_reit |-> 0, os_bond |-> 0],
     [jp_stock |-> 16000, jp_reit |-> 0, jp_bond |-> 0, global_stock |-> 4000,
      us_stock |-> 0, os_reit |-> 0, os_bond |-> 0]}

\* additional_amount: the number_input of lines 1003-1010 (min 0, step 10000),
\* and amounts typed in between the steps.
ExtraAmounts == {0, 5000, 8000, 10000, 100000}

\* The two options of the strategy radio button (lines 944-948): adjust within
\* the monthly amount, or rebalance with extra capital.
BUDGET_BOUNDED == "BUDGET_BOUNDED"
EXTRA_CAPITAL == "EXTRA_CAPITAL"

\* The runs explored: every combination of market signals with no holdings
\* entered, every holdings / strategy combination in a quiet market, and
\* unbalanced holdings under every strategy in a crashing market.
SignalRuns ==
    {[base_amount |-> b, vix_data |-> v, buffett_jp |-> bj, nikkei_hist |-> nh,
      buffett_us |-> bu, sp500_hist |-> sh, current |-> Zero,
      rebalance_mode |-> BUDGET_BOUNDED, min_purchase |-> 3000, additional_amount |-> 0] :
        b \in BaseAmounts, v \in VixData, bj \in Buffett, nh \in IndexHist,
        bu \in Buffett, sh \in IndexHist}

PlanSettings ==
    {[rebalance_mode |-> BUDGET_BOUNDED, min_purchase |-> mp, additional_amount |-> 0] :
        mp \in {1000, 3000}}
    \cup {[rebalance_mode |-> EXTRA_CAPITAL, min_purchase |-> 3000, additional_amount |-> a] :
        a \in ExtraAmounts}

RebalanceRuns ==
    {[base_amount |-> b, vix_data |-> QuietVix, buffett_jp |-> 120, nikkei_hist |-> QuietHist,
      buffett_us |-> 180, sp500_hist |-> QuietHist, current |-> h,
      rebalance_mode |-> s.rebalance_mode, min_purchase |-> s.min_purchase,
      additional_amount |-> s.additional_amount] :
        b \in {10000, 12000, 21000, 300000}, h \in Holdings \cup OnTargetHoldings \cup SkewedHoldings \cup BoundaryHoldings,
        s \in PlanSettings}

CrashVix == [raised |-> FALSE, close |-> <<31>>]
CrashHist == [raised |-> FALSE, rows |-> 60, last |-> 80, ago |-> 100]

CrashRebalanceRuns ==
    {[base_amount |-> b, vix_data |-> CrashVix, buffett_jp |-> 79, nikkei_hist |-> nh,
      buffett_us |-> 79, sp500_hist |-> sh, current |-> h,
      rebalance_mode |-> s.rebalance_mode, min_purchase |-> s.min_purchase,
      additional_amount |-> s.additional_amount] :
        b \in {10000, 21000}, nh \in {CrashHist, QuietHist}, sh \in {CrashHist, QuietHist},
        h \in SkewedHoldings \cup BoundaryHoldings, s \in PlanSettings}

Runs == SignalRuns \cup RebalanceRuns \cup CrashRebalanceRuns

Init ==
    /\ pc = "start"
    /\ \E run \in Runs :
        /\ base_amount = run.base_amount
        /\ vix_data = run.vix_data
        /\ buffett_jp = run.buffett_jp
        /\ nikkei_hist = run.nikkei_hist
        /\ buffett_us = run.buffett_us
        /\ sp500_hist = run.sp500_hist
        /\ current = run.current
        /\ rebalance_mode = run.rebalance_mode
        /\ min_purchase = run.min_purchase
        /\ additional_amount = run.additional_amount
    /\ regular = Zero /\ global_stock_tsumitate = 0 /\ global_stock_growth = 0
    /\ jp_total = 0 /\ os_total = 0 /\ crash_fund_jp = 0 /\ crash_fund_os = 0
    /\ vix_value = None /\ vix_condition = FALSE
    /\ buffett_jp_condition = FALSE /\ nikkei_change = None /\ nikkei_condition = FALSE
    /\ jp_crash = FALSE
    /\ buffett_us_condition = FALSE /\ sp500_change = None /\ sp500_condition = FALSE
    /\ us_crash = FALSE
    /\ pattern = "" /\ add = Zero /\ global_stock_add_tsumitate = 0
    /\ global_stock_add_growth = 0 /\ fund_total = Zero /\ total_with_crash = 0
    /\ total_current = 0 /\ target_jp = 0 /\ target_os = 0 /\ adjust_jp = 0 /\ adjust_os = 0
    /\ target = Zero /\ adjust = Zero /\ balance = "" /\ shortage_funds = << >>
    /\ next = Zero /\ total_investment = 0 /\ months_needed = << >>
    /\ fund_details = << >> /\ max_months = 0 /\ rebalance_result = ""
    /\ line_token = FALSE /\ message = None /\ line_result = ""

(* ------------------------------------------------------------------ *)
(* Regular allocation (lines 97-120)                                   *)
(* ------------------------------------------------------------------ *)
\* The allocation cut down to whole thousands instead of rounded.
RegularAmountTruncated(b, f) ==
    LET v == FloatMulRatio(b, FUND_RATIOS[f], 100) IN v.int - (v.int % 1000)

\* round_to_1000(base_amount * FUND_RATIOS[f])
RegularAmount(b, f) == round_to_1000(FloatMulRatio(b, FUND_RATIOS[f], 100))

\* lines 106-112: the tsumitate bucket takes the allocation up to the limit.
TsumitateUncapped(total) == total

Tsumitate(total) == IF total <= TSUMITATE_LIMIT THEN total ELSE TSUMITATE_LIMIT
Growth(total) == IF total <= TSUMITATE_LIMIT THEN 0 ELSE total - TSUMITATE_LIMIT

\* lines 119-120
CrashFund(b, ratio) == round_to_1000(FloatMulRatio(b, ratio, 100))

BaseAllocator ==
    /\ pc = "start"
    /\ regular' = [f \in FundId |-> RegularAmount(base_amount, f)]
    /\ global_stock_tsumitate' = Tsumitate(regular'["global_stock"])
    /\ global_stock_growth' = Growth(regular'["global_stock"])
    /\ jp_total' = SumOver(regular', HOME)
    /\ os_total' = SumOver(regular', FOREIGN)
    /\ crash_fund_jp' = CrashFund(base_amount, JP_RATIO)
    /\ crash_fund_os' = CrashFund(base_amount, OS_RATIO)
    /\ pc' = "vix"
    /\ UNCHANGED <<inputVars, vixVars, jpVars, usVars, patternVars, targetVars, planVars,
                   rebalance_result, notifyVars>>

(* ------------------------------------------------------------------ *)
(* Crash judgement (lines 143-317)                                     *)
(* ------------------------------------------------------------------ *)
\* lines 144-172: no data or an exception leave vix_value None and the
\* condition False.
VixAvailable(d) == ~d.raised /\ Len(d.close) > 0
VixCondition(d) == VixAvailable(d) /\ d.close[Len(d.close)] > 30

FetchVix ==
    /\ pc = "vix"
    /\ vix_value' = IF VixAvailable(vix_data) THEN Some(vix_data.close[Len(vix_data.close)])
                    ELSE None
    /\ vix_condition' = VixCondition(vix_data)
    /\ pc' = "jp"
    /\ UNCHANGED <<inputVars, allocVars, jpVars, usVars, patternVars, targetVars, planVars,
                   rebalance_result, notifyVars>>

\* lines 197 / 267
BuffettCondition(b) == b < 80

\* lines 209-237 / 279-307: fewer than 60 rows or an exception leave the change
\* None and the condition False; otherwise the change over the last 60 rows,
\* ((last - ago) / ago) * 100, is compared with -20.
HistAvailable(h) == ~h.raised /\ h.rows >= 60

\* lines 224 / 294: change <= -20, the quotient compared by cross-multiplication
\* with the sign of the divisor. The closes are numpy.float64 values of the
\* pandas frame, whose division by 0 does not raise: the change is then nan
\* (last = 0) or inf (last > 0), neither of which is <= -20, or -inf
\* (last < 0), which is.
ChangeAtMost20Down(h) ==
    IF h.ago > 0 THEN (h.last - h.ago) * 100 <= (0 - 20) * h.ago
    ELSE IF h.ago < 0 THEN (h.last - h.ago) * 100 >= (0 - 20) * h.ago
    ELSE h.last < 0

\* A failed fetch counted as a severe drawdown.
IndexConditionFailOpen(h) == ~HistAvailable(h) \/ ChangeAtMost20Down(h)

IndexCondition(h) == HistAvailable(h) /\ ChangeAtMost20Down(h)

\* lines 214-216 / 284-286: the change as the quotient num / den; den = 0
\* stands for nan (num = 0), inf (num > 0) or -inf (num < 0).
IndexChange(h) == IF HistAvailable(h)
                  THEN Some([num |-> (h.last - h.ago) * 100, den |-> h.ago])
                  ELSE None

\* A verdict that needs the volatility signal and only one of the other two.
CrashVerdictEither(vix, buffett, index) == vix /\ (buffett \/ index)

\* lines 242 / 312
CrashVerdict(vix, buffett, index) == vix /\ buffett /\ index

JudgeJp ==
    /\ pc = "jp"
    /\ buffett_jp_condition' = BuffettCondition(buffett_jp)
    /\ nikkei_change' = IndexChange(nikkei_hist)
    /\ nikkei_condition' = IndexCondition(nikkei_hist)
    /\ jp_crash' = CrashVerdict(vix_condition, buffett_jp_condition', nikkei_condition')
    /\ pc' = "us"
    /\ UNCHANGED <<inputVars, allocVars, vixVars, usVars, patternVars, targetVars, planVars,
                   rebalance_result, notifyVars>>

JudgeUs ==
    /\ pc = "us"
    /\ buffett_us_condition' = BuffettCondition(buffett_us)
    /\ sp500_change' = IndexChange(sp500_hist)
    /\ sp500_condition' = IndexCondition(sp500_hist)
    /\ us_crash' = CrashVerdict(vix_condition, buffett_us_condition', sp500_condition')
    /\ pc' = "pattern"
    /\ UNCHANGED <<inputVars, allocVars, vixVars, jpVars, patternVars, targetVars, planVars,
                   rebalance_result, notifyVars>>

(* ------------------------------------------------------------------ *)
(* Final judgement: the four patterns (lines 325-650)                  *)
(* ------------------------------------------------------------------ *)
\* round_to_1000(crash_fund * FUND_RATIOS[f] / ratio), lines 397-399, 471-474,
\* 564-572
\* The crash fund times the fund's fraction, not divided by the market's ratio.
AdditionalAmountUnscaled(cf, f, ratio) == round_to_1000(FloatMulRatio(cf, FUND_RATIOS[f], 100))

AdditionalAmount(cf, f, ratio) == round_to_1000(FloatMulDiv(cf, FUND_RATIOS[f], ratio))

\* The Japanese crash fund spread over all seven funds.
JpAdditionalAll(cf) == [f \in FundId |-> AdditionalAmount(cf, f, JP_RATIO)]

JpAdditional(cf) == [f \in FundId |-> IF f \in HOME THEN AdditionalAmount(cf, f, JP_RATIO) ELSE 0]
OsAdditional(cf) == [f \in FundId |-> IF f \in FOREIGN THEN AdditionalAmount(cf, f, OS_RATIO) ELSE 0]

Min(a, b) == IF a <= b THEN a ELSE b

\* lines 476-490 / 574-588: the tsumitate part of the additional global_stock
\* amount; the growth part is the rest.
AddTsumitate(total, tsumitate, growth, gadd) ==
    IF growth > 0
    THEN round_to_1000(FloatMulRatio(gadd, tsumitate, total))
    ELSE IF total + gadd <= TSUMITATE_LIMIT THEN gadd
    ELSE Min(gadd, TSUMITATE_LIMIT - tsumitate)

\* The total column of the fund table: regular plus additional amount.
FundTotal(reg, a) == [f \in FundId |-> reg[f] + a[f]]

\* The branch the if / elif chain of lines 325, 386, 460, 553 takes, with the
\* two single-market branches exchanged.
PatternOfSwapped(jp, us) ==
    IF ~jp /\ ~us THEN "pattern1"
    ELSE IF jp /\ ~us THEN "pattern3"
    ELSE IF ~jp /\ us THEN "pattern2"
    ELSE "pattern4"

\* The branch the if / elif chain of lines 325, 386, 460, 553 takes.
PatternOf(jp, us) ==
    IF ~jp /\ ~us THEN "pattern1"
    ELSE IF jp /\ ~us THEN "pattern2"
    ELSE IF ~jp /\ us THEN "pattern3"
    ELSE "pattern4"

\* lines 325-384: both markets normal, the regular purchase only.
Pattern1 ==
    /\ pc = "pattern"
    /\ PatternOf(jp_crash, us_crash) = "pattern1"
    /\ pattern' = "pattern1"
    /\ add' = Zero
    /\ fund_total' = FundTotal(regular, Zero)
    /\ total_with_crash' = base_amount
    /\ pc' = "detail"
    /\ UNCHANGED <<global_stock_add_tsumitate, global_stock_add_growth>>
    /\ UNCHANGED <<inputVars, allocVars, vixVars, jpVars, usVars, targetVars, planVars,
                   rebalance_result, notifyVars>>

\* lines 386-458: Japan only.
Pattern2 ==
    /\ pc = "pattern"
    /\ PatternOf(jp_crash, us_crash) = "pattern2"
    /\ pattern' = "pattern2"
    /\ add' = JpAdditional(crash_fund_jp)
    /\ fund_total' = FundTotal(regular, add')
    /\ total_with_crash' = base_amount + crash_fund_jp
    /\ pc' = "detail"
    /\ UNCHANGED <<global_stock_add_tsumitate, global_stock_add_growth>>
    /\ UNCHANGED <<inputVars, allocVars, vixVars, jpVars, usVars, targetVars, planVars,
                   rebalance_result, notifyVars>>

\* lines 460-551: US (world) only.
Pattern3 ==
    /\ pc = "pattern"
    /\ PatternOf(jp_crash, us_crash) = "pattern3"
    /\ pattern' = "pattern3"
    /\ add' = OsAdditional(crash_fund_os)
    /\ global_stock_add_tsumitate' =
         AddTsumitate(regular["global_stock"], global_stock_tsumitate, global_stock_growth,
                      add'["global_stock"])
    /\ global_stock_add_growth' = add'["global_stock"] - global_stock_add_tsumitate'
    /\ fund_total' = FundTotal(regular, add')
    /\ total_with_crash' = base_amount + crash_fund_os
    /\ pc' = "detail"
    /\ UNCHANGED <<inputVars, allocVars, vixVars, jpVars, usVars, targetVars, planVars,
                   rebalance_result, notifyVars>>

\* lines 553-650: both markets.
Pattern4 ==
    /\ pc = "pattern"
    /\ PatternOf(jp_crash, us_crash) = "pattern4"
    /\ pattern' = "pattern4"
    /\ add' = [f \in FundId |-> IF f \in HOME THEN JpAdditional(crash_fund_jp)[f]
                                ELSE OsAdditional(crash_fund_os)[f]]
    /\ global_stock_add_tsumitate' =
         AddTsumitate(regular["global_stock"], global_stock_tsumitate, global_stock_growth,
                      add'["global_stock"])
    /\ global_stock_add_growth' = add'["global_stock"] - global_stock_add_tsumitate'
    /\ fund_total' = FundTotal(regular, add')
    /\ total_with_crash' = base_amount + base_amount
    /\ pc' = "detail"
    /\ UNCHANGED <<inputVars, allocVars, vixVars, jpVars, usVars, targetVars, planVars,
                   rebalance_result, notifyVars>>

\* lines 654-689: the detail tables; a None value is shown as "N/A".
ShowDetails ==
    /\ pc = "detail"
    /\ pc' = "rebalance"
    /\ UNCHANGED <<inputVars, allocVars, vixVars, jpVars, usVars, patternVars, targetVars,
                   planVars, rebalance_result, notifyVars>>

(* ------------------------------------------------------------------ *)
(* Rebalance calculator (lines 775-1335)                               *)
(* ------------------------------------------------------------------ *)
Abs(x) == IF x < 0 THEN 0 - x ELSE x

\* round_to_1000(total_current * ratio), lines 789-790 and 824-830
\* Targets cut down to whole thousands.
TargetAmountTruncated(total, ratio) ==
    LET v == FloatMulRatio(total, ratio, 100) IN v.int - (v.int % 1000)

\* Targets taken up to the next multiple of 1000.
TargetAmountUp(total, ratio) ==
    LET v == FloatMulRatio(total, ratio, 100)
    IN  IF v.int % 1000 = 0 /\ v.num = 0 THEN v.int ELSE v.int - (v.int % 1000) + 1000

TargetAmount(total, ratio) == round_to_1000(FloatMulRatio(total, ratio, 100))

\* lines 845-856
\* A classification that still calls an adjustment of exactly 10000 balanced.
BalanceInclusive(aj, ao) ==
    IF Abs(aj) <= 10000 /\ Abs(ao) <= 10000 THEN "balanced" ELSE "unbalanced"

Balance(aj, ao) == IF Abs(aj) < 10000 /\ Abs(ao) < 10000 THEN "balanced" ELSE "unbalanced"

\* line 780: if current_jp > 0 or current_os > 0
HasHoldings(cur) == SumOver(cur, HOME) > 0 \/ SumOver(cur, FOREIGN) > 0

\* lines 780-783: with no holdings entered the calculator shows nothing.
NoHoldings ==
    /\ pc = "rebalance"
    /\ ~HasHoldings(current)
    /\ pc' = "notify"
    /\ UNCHANGED <<inputVars, allocVars, vixVars, jpVars, usVars, patternVars, targetVars,
                   planVars, rebalance_result, notifyVars>>

\* lines 780-932: targets, adjustments and the overall balance.
RebalanceTargets ==
    /\ pc = "rebalance"
    /\ HasHoldings(current)
    /\ total_current' = SumOver(current, HOME) + SumOver(current, FOREIGN)
    /\ target_jp' = TargetAmount(total_current', JP_RATIO)
    /\ target_os' = TargetAmount(total_current', OS_RATIO)
    /\ adjust_jp' = target_jp' - SumOver(current, HOME)
    /\ adjust_os' = target_os' - SumOver(current, FOREIGN)
    /\ target' = [f \in FundId |-> TargetAmount(total_current', FUND_RATIOS[f])]
    /\ adjust' = [f \in FundId |-> target'[f] - current[f]]
    /\ balance' = Balance(adjust_jp', adjust_os')
    /\ pc' = "plan"
    /\ UNCHANGED <<shortage_funds>>
    /\ UNCHANGED <<inputVars, allocVars, vixVars, jpVars, usVars, patternVars, planVars,
                   rebalance_result, notifyVars>>

\* lines 1024-1038: the funds with a positive adjustment, in fund order.
ShortageFunds(adj) ==
    SelectSeq([i \in 1..Len(FUNDS) |-> <<FUNDS[i], adj[FUNDS[i]]>>], LAMBDA p : p[2] > 0)

RECURSIVE SumSeq(_)
SumSeq(s) == IF s = << >> THEN 0 ELSE Head(s) + SumSeq(Tail(s))

Amounts(sf) == [i \in 1..Len(sf) |-> sf[i][2]]

\* line 1042
TotalShortage(sf) == SumSeq(Amounts(sf))

\* max(shortage_funds, key=lambda x: x[1])[0]: the first fund with the
\* largest shortage (lines 1088, 1150).
\* The remainder put on the first fund of the table, short or not.
LargestShortageFundFirst(sf) == FUNDS[1]

LargestShortageFund(sf) ==
    LET i == CHOOSE k \in 1..Len(sf) :
                 /\ \A j \in 1..Len(sf) : sf[j][2] <= sf[k][2]
                 /\ \A j \in 1..(k - 1) : sf[j][2] < sf[k][2]
    IN  sf[i][1]

\* lines 1061-1079 / 1122-1140: round_to_1000(amount * (shortage / total_shortage))
\* is added to each shortage fund.
Share(amount, shortage, total) == round_to_1000(FloatMulRatio(amount, shortage, total))

Distributed(baseline, sf, amount) ==
    [f \in FundId |->
        IF \E i \in 1..Len(sf) : sf[i][1] = f
        THEN baseline[f] + Share(amount, adjust[f], TotalShortage(sf))
        ELSE baseline[f]]

\* The plan left as distributed, the remainder dropped.
ReconciledSkipped(plan, sf, intended) == plan

\* lines 1081-1102 / 1142-1164: the difference to the intended total goes to
\* the fund with the largest shortage.
Reconciled(plan, sf, intended) ==
    LET diff == intended - SumOver(plan, FundId)
    IN  IF diff # 0 /\ Len(sf) > 0
        THEN [plan EXCEPT ![LargestShortageFund(sf)] = @ + diff]
        ELSE plan

\* The months counted in whole divisions only.
MonthsFloor(adj, additional) == adj \div additional

\* lines 1213-1264: months for a shortage fund that gets more than its regular
\* amount: int(adjust / additional) + (1 if adjust % additional > 0 else 0).
Months(adj, additional) == (adj \div additional) + (IF adj % additional > 0 THEN 1 ELSE 0)

FundDetails(plan) ==
    LET counted == SelectSeq(FUNDS, LAMBDA f : adjust[f] > 0 /\ plan[f] - regular[f] > 0)
    IN  [i \in 1..Len(counted) |->
            <<counted[i], Months(adjust[counted[i]], plan[counted[i]] - regular[counted[i]])>>]

RECURSIVE MaxSeq(_)
MaxSeq(s) == IF s = << >> THEN 0
             ELSE LET m == MaxSeq(Tail(s)) IN IF Head(s) >= m THEN Head(s) ELSE m

\* line 1264
MaxMonths(months) == MaxSeq(months)

Duration(plan) ==
    /\ fund_details' = FundDetails(plan)
    /\ months_needed' = [i \in 1..Len(fund_details') |-> fund_details'[i][2]]
    /\ max_months' = MaxMonths(months_needed')

\* lines 1334-1335: no fund is short.
NoShortage ==
    /\ pc = "plan"
    /\ shortage_funds' = ShortageFunds(adjust)
    /\ shortage_funds' = << >>
    /\ rebalance_result' = "normal_allocation"
    /\ pc' = "notify"
    /\ UNCHANGED <<total_current, target_jp, target_os, adjust_jp, adjust_os, target, adjust,
                   balance>>
    /\ UNCHANGED <<inputVars, allocVars, vixVars, jpVars, usVars, patternVars, planVars,
                   notifyVars>>

\* lines 1047-1048: min_total = min_purchase * 7; if base_amount > min_total
BudgetSufficient(b, mp) == b > mp * 7

\* lines 1044-1104 and 1168-1294: adjust within the monthly amount.
PlanBudgetBounded ==
    /\ pc = "plan"
    /\ shortage_funds' = ShortageFunds(adjust)
    /\ shortage_funds' # << >>
    /\ rebalance_mode = BUDGET_BOUNDED
    /\ BudgetSufficient(base_amount, min_purchase)
    /\ next' = Reconciled(Distributed([f \in FundId |-> min_purchase], shortage_funds',
                                      base_amount - min_purchase * 7),
                          shortage_funds', base_amount)
    /\ total_investment' = base_amount
    /\ Duration(next')
    /\ rebalance_result' = "plan"
    /\ pc' = "notify"
    /\ UNCHANGED <<total_current, target_jp, target_os, adjust_jp, adjust_os, target, adjust,
                   balance>>
    /\ UNCHANGED <<inputVars, allocVars, vixVars, jpVars, usVars, patternVars, notifyVars>>

\* lines 1106-1108: the monthly amount does not exceed seven minimum
\* purchases; st.stop() ends the run.
\* The warning of line 1106 without the st.stop() of line 1108.
StopInsufficientContinues ==
    /\ pc = "plan"
    /\ shortage_funds' = ShortageFunds(adjust)
    /\ shortage_funds' # << >>
    /\ rebalance_mode = BUDGET_BOUNDED
    /\ ~BudgetSufficient(base_amount, min_purchase)
    /\ rebalance_result' = "insufficient"
    /\ pc' = "notify"
    /\ UNCHANGED <<total_current, target_jp, target_os, adjust_jp, adjust_os, target, adjust,
                   balance>>
    /\ UNCHANGED <<inputVars, allocVars, vixVars, jpVars, usVars, patternVars, planVars,
                   notifyVars>>

StopInsufficient ==
    /\ pc = "plan"
    /\ shortage_funds' = ShortageFunds(adjust)
    /\ shortage_funds' # << >>
    /\ rebalance_mode = BUDGET_BOUNDED
    /\ ~BudgetSufficient(base_amount, min_purchase)
    /\ rebalance_result' = "insufficient"
    /\ pc' = "stopped"
    /\ UNCHANGED <<total_current, target_jp, target_os, adjust_jp, adjust_os, target, adjust,
                   balance>>
    /\ UNCHANGED <<inputVars, allocVars, vixVars, jpVars, usVars, patternVars, planVars,
                   notifyVars>>

\* lines 1110-1166 and 1168-1333: rebalance with extra capital.
PlanExtraCapital ==
    /\ pc = "plan"
    /\ shortage_funds' = ShortageFunds(adjust)
    /\ shortage_funds' # << >>
    /\ rebalance_mode = EXTRA_CAPITAL
    /\ next' = Reconciled(Distributed(regular, shortage_funds', additional_amount),
                          shortage_funds', base_amount + additional_amount)
    /\ total_investment' = base_amount + additional_amount
    /\ Duration(next')
    /\ rebalance_result' = "plan"
    /\ pc' = "notify"
    /\ UNCHANGED <<total_current, target_jp, target_os, adjust_jp, adjust_os, target, adjust,
                   balance>>
    /\ UNCHANGED <<inputVars, allocVars, vixVars, jpVars, usVars, patternVars, notifyVars>>

(* ------------------------------------------------------------------ *)
(* LINE notification (lines 1337-1381)                                 *)
(* ------------------------------------------------------------------ *)
\* lines 1358-1365: the additional amount and the total the message states.
MessageExtra == IF ~jp_crash /\ ~us_crash THEN 0
                ELSE IF jp_crash /\ ~us_crash THEN crash_fund_jp
                ELSE IF ~jp_crash /\ us_crash THEN crash_fund_os
                ELSE base_amount

MessageTotal == IF ~jp_crash /\ ~us_crash THEN base_amount
                ELSE IF jp_crash /\ ~us_crash THEN base_amount + crash_fund_jp
                ELSE IF ~jp_crash /\ us_crash THEN base_amount + crash_fund_os
                ELSE base_amount * 2

\* lines 1374-1381: no token in the secrets.
NotifyNotConfigured ==
    /\ pc = "notify"
    /\ line_token' = FALSE
    /\ line_result' = "not_configured"
    /\ pc' = "done"
    /\ UNCHANGED message
    /\ UNCHANGED <<inputVars, allocVars, vixVars, jpVars, usVars, patternVars, targetVars,
                   planVars, rebalance_result>>

\* lines 1342-1345: a token is set and the button is not pressed.
NotifyIdle ==
    /\ pc = "notify"
    /\ line_token' = TRUE
    /\ pc' = "done"
    /\ UNCHANGED <<message, line_result>>
    /\ UNCHANGED <<inputVars, allocVars, vixVars, jpVars, usVars, patternVars, targetVars,
                   planVars, rebalance_result>>

\* lines 1345-1372: the button is pressed, the message is composed and sent;
\* send_line_notify (lines 21-51) returns whether the API answered 200.
NotifySend ==
    /\ pc = "notify"
    /\ vix_value # None
    /\ line_token' = TRUE
    /\ message' = Some([vix |-> vix_value[1], jp_crash |-> jp_crash, us_crash |-> us_crash,
                        extra |-> MessageExtra, total |-> MessageTotal])
    /\ \E ok \in BOOLEAN : line_result' = IF ok THEN "sent" ELSE "failed"
    /\ pc' = "done"
    /\ UNCHANGED <<inputVars, allocVars, vixVars, jpVars, usVars, patternVars, targetVars,
                   planVars, rebalance_result>>

\* line 1352: f"{vix_value:.2f}" with vix_value None raises TypeError; the
\* run ends with the exception and nothing is sent.
NotifyRaises ==
    /\ pc = "notify"
    /\ vix_value = None
    /\ line_token' = TRUE
    /\ pc' = "error"
    /\ UNCHANGED <<message, line_result>>
    /\ UNCHANGED <<inputVars, allocVars, vixVars, jpVars, usVars, patternVars, targetVars,
                   planVars, rebalance_result>>

(* ------------------------------------------------------------------ *)
(* The run                                                             *)
(* ------------------------------------------------------------------ *)
Next ==
    \/ BaseAllocator
    \/ FetchVix
    \/ JudgeJp
    \/ JudgeUs
    \/ Pattern1
    \/ Pattern2
    \/ Pattern3
    \/ Pattern4
    \/ ShowDetails
    \/ NoHoldings
    \/ RebalanceTargets
    \/ NoShortage
    \/ PlanBudgetBounded
    \/ StopInsufficient
    \/ PlanExtraCapital
    \/ NotifyNotConfigured
    \/ NotifyIdle
    \/ NotifySend
    \/ NotifyRaises

Spec == Init /\ [][Next]_vars

(***************************************************************************)
(* Properties of the run.                                                  *)
(***************************************************************************)

\* Positions of the run at which a section's results exist.
Allocated == pc # "start"
VixFetched == pc \notin {"start", "vix"}
Judged == pc \notin {"start", "vix", "jp", "us"}
Patterned == pc \notin {"start", "vix", "jp", "us", "pattern"}
Targeted == total_current > 0
Planned == rebalance_result = "plan"

\* The exact product n * p / 100 as a value passed to round_to_1000.
Exact(n, p) == [int |-> (n * p) \div 100, num |-> (n * p) % 100, den |-> 100, eps |-> 0]

\* y is a multiple of 1000 no further than 500 from n * p / 100.
NearestThousand(y, n, p) == y % 1000 = 0 /\ Abs(100 * y - n * p) <= 50000

\* C1: a market's crash verdict is true exactly when the volatility signal,
\* that market's valuation signal and that market's drawdown signal are all
\* true; the volatility signal is the one both markets share, and the other
\* market's valuation and drawdown signals play no part.
C1_VerdictIsConjunction ==
    Judged =>
        /\ jp_crash = (vix_condition /\ buffett_jp_condition /\ nikkei_condition)
        /\ us_crash = (vix_condition /\ buffett_us_condition /\ sp500_condition)
        /\ jp_crash = (VixCondition(vix_data) /\ buffett_jp < 80 /\ IndexCondition(nikkei_hist))
        /\ us_crash = (VixCondition(vix_data) /\ buffett_us < 80 /\ IndexCondition(sp500_hist))

\* All three signals true for the Japanese market only: it alone is crashed.
C1_Witness ==
    /\ Judged
    /\ vix_condition /\ buffett_jp_condition /\ nikkei_condition
    /\ buffett_us_condition /\ ~sp500_condition
    /\ jp_crash /\ ~us_crash

\* C2: a signal whose data could not be fetched (the request raised, came
\* back empty, or the index history has fewer than 60 rows) counts as false,
\* so no market that depends on it is crashed and none of that market's funds
\* gets an additional amount.
C2_UnavailableSignalIsFalse ==
    /\ (VixFetched /\ ~VixAvailable(vix_data)) => (~vix_condition /\ vix_value = None)
    /\ Judged =>
        /\ ~VixAvailable(vix_data) => (~jp_crash /\ ~us_crash)
        /\ ~HistAvailable(nikkei_hist) =>
               (~nikkei_condition /\ nikkei_change = None /\ ~jp_crash)
        /\ ~HistAvailable(sp500_hist) =>
               (~sp500_condition /\ sp500_change = None /\ ~us_crash)
    /\ Patterned =>
        /\ ~VixAvailable(vix_data) => (add = Zero /\ total_with_crash = base_amount)
        /\ ~HistAvailable(nikkei_hist) => \A f \in HOME : add[f] = 0
        /\ ~HistAvailable(sp500_hist) => \A f \in FOREIGN : add[f] = 0

\* The Japanese index history is missing while every other signal is true:
\* the US market is crashed, the Japanese one is not.
C2_Witness ==
    /\ Patterned
    /\ ~HistAvailable(nikkei_hist)
    /\ vix_condition /\ buffett_jp_condition
    /\ ~jp_crash /\ us_crash
    /\ \A f \in HOME : add[f] = 0

\* C3: the two verdicts select exactly one of four patterns, and the month's
\* total is the monthly amount (none crashed), the monthly amount plus the
\* Japanese crash fund (Japan only), plus the overseas crash fund (US only),
\* or twice the monthly amount (both); a crash fund is round_to_1000 of the
\* monthly amount times the market's ratio.
C3_PatternAndTotal ==
    /\ Allocated =>
        /\ crash_fund_jp = round_to_1000(FloatMulRatio(base_amount, JP_RATIO, 100))
        /\ crash_fund_os = round_to_1000(FloatMulRatio(base_amount, OS_RATIO, 100))
        /\ NearestThousand(crash_fund_jp, base_amount, JP_RATIO)
        /\ NearestThousand(crash_fund_os, base_amount, OS_RATIO)
    /\ Patterned =>
        /\ pattern \in {"pattern1", "pattern2", "pattern3", "pattern4"}
        /\ (pattern = "pattern1") = (~jp_crash /\ ~us_crash)
        /\ (pattern = "pattern2") = (jp_crash /\ ~us_crash)
        /\ (pattern = "pattern3") = (~jp_crash /\ us_crash)
        /\ (pattern = "pattern4") = (jp_crash /\ us_crash)
        /\ pattern = "pattern1" => total_with_crash = base_amount
        /\ pattern = "pattern2" => total_with_crash = base_amount + crash_fund_jp
        /\ pattern = "pattern3" => total_with_crash = base_amount + crash_fund_os
        /\ pattern = "pattern4" => total_with_crash = 2 * base_amount

\* Only the US market is crashed and the total carries the overseas crash fund.
C3_Witness ==
    /\ Patterned
    /\ ~jp_crash /\ us_crash
    /\ pattern = "pattern3"
    /\ crash_fund_os > 0
    /\ total_with_crash = base_amount + crash_fund_os

\* C4: the funds of a market that is not crashed get no additional amount;
\* their total for the month is their regular amount.
C4_NonCrashedMarketKeepsRegular ==
    Patterned =>
        /\ ~jp_crash => \A f \in HOME : add[f] = 0 /\ fund_total[f] = regular[f]
        /\ ~us_crash =>
            /\ \A f \in FOREIGN : add[f] = 0 /\ fund_total[f] = regular[f]
            /\ global_stock_add_tsumitate = 0 /\ global_stock_add_growth = 0

\* Japan alone is crashed: its funds are topped up, the overseas ones are not.
C4_Witness ==
    /\ Patterned
    /\ jp_crash /\ ~us_crash
    /\ \E f \in HOME : add[f] > 0 /\ fund_total[f] > regular[f]
    /\ \A f \in FOREIGN : regular[f] > 0 /\ fund_total[f] = regular[f]

\* C5: each fund's regular amount is round_to_1000 of the monthly amount
\* times the fund's fraction (15, 10, 5, 40, 15, 10, 5 percent); a monthly
\* amount of 300000 gives 45000, 30000, 15000, 120000, 45000, 30000, 15000,
\* which sum to 300000.
C5_RegularAllocation ==
    Allocated =>
        /\ \A f \in FundId :
            /\ regular[f] = round_to_1000(Exact(base_amount, FUND_RATIOS[f]))
            /\ NearestThousand(regular[f], base_amount, FUND_RATIOS[f])
        /\ FUND_RATIOS = [jp_stock |-> 15, jp_reit |-> 10, jp_bond |-> 5, global_stock |-> 40,
                          us_stock |-> 15, os_reit |-> 10, os_bond |-> 5]
        /\ base_amount = 300000 =>
            /\ regular = [jp_stock |-> 45000, jp_reit |-> 30000, jp_bond |-> 15000,
                          global_stock |-> 120000, us_stock |-> 45000, os_reit |-> 30000,
                          os_bond |-> 15000]
            /\ SumOver(regular, FundId) = 300000

\* The allocation of 300000 has been computed.
C5_Witness ==
    /\ Allocated
    /\ base_amount = 300000
    /\ regular["global_stock"] = 120000
    /\ regular["os_bond"] = 15000

\* C6: the global stock fund's regular amount is split into a tax-advantaged
\* part and a growth part that sum to it; the tax-advantaged part never
\* exceeds 100000; an amount up to the cap is all tax-advantaged, a larger
\* one puts the cap there and the excess into growth.
C6_TsumitateSplit ==
    Allocated =>
        /\ global_stock_tsumitate + global_stock_growth = regular["global_stock"]
        /\ global_stock_tsumitate <= TSUMITATE_LIMIT
        /\ global_stock_tsumitate >= 0 /\ global_stock_growth >= 0
        /\ regular["global_stock"] <= TSUMITATE_LIMIT =>
            (global_stock_tsumitate = regular["global_stock"] /\ global_stock_growth = 0)
        /\ regular["global_stock"] > TSUMITATE_LIMIT =>
            /\ global_stock_tsumitate = TSUMITATE_LIMIT
            /\ global_stock_growth = regular["global_stock"] - TSUMITATE_LIMIT

\* An allocation above the cap: the excess is in the growth part.
C6_Witness ==
    /\ Allocated
    /\ regular["global_stock"] > TSUMITATE_LIMIT
    /\ global_stock_tsumitate = TSUMITATE_LIMIT
    /\ global_stock_growth > 0

\* C7: the seven regular amounts sum to the monthly amount rounded to the
\* nearest 1000, give or take 6000.
C7_SumWithinRoundingError ==
    Allocated =>
        Abs(SumOver(regular, FundId) - round_to_1000(Whole(base_amount))) <= 6000

\* A monthly amount whose regular amounts do not sum to it.
C7_Witness ==
    /\ Allocated
    /\ SumOver(regular, FundId) # round_to_1000(Whole(base_amount))
    /\ SumOver(regular, FundId) # base_amount

\* The double passed to round_to_1000 lies within 500 of y.
Within500(value, y) ==
    /\ \/ value.int < y + 500
       \/ value.int = y + 500 /\ value.num = 0 /\ value.eps <= 0
    /\ \/ value.int > y - 500
       \/ value.int = y - 500 /\ (value.num > 0 \/ value.eps >= 0)

\* The double passed to round_to_1000 is exactly halfway between two multiples.
Halfway(value) == value.int % 1000 = 500 /\ value.num = 0 /\ value.eps = 0

\* y is what the amended rule allows for the argument: a multiple of 1000
\* nearest to it, the even one of the two when it is exactly halfway.
NearestHalfEven(value, y) ==
    /\ y % 1000 = 0
    /\ Within500(value, y)
    /\ Halfway(value) => (y \div 1000) % 2 = 0

\* y is what the rule as stated allows for the exact amount n * p / 100: the
\* nearest multiple of 1000, the higher one when the amount is halfway.
NearestHalfUp(n, p, y) ==
    /\ NearestThousand(y, n, p)
    /\ (n * p) % 100000 = 50000 => 100 * y = n * p + 50000

\* C8 as stated: round_to_1000 gives the nearest multiple of 1000, an amount
\* exactly halfway going up (500 to 1000, 1500 to 2000).
C8_TiesRoundUp ==
    Allocated =>
        /\ \A f \in FundId : NearestHalfUp(base_amount, FUND_RATIOS[f], regular[f])
        /\ NearestHalfUp(base_amount, JP_RATIO, crash_fund_jp)
        /\ NearestHalfUp(base_amount, OS_RATIO, crash_fund_os)

\* C8, amended: round_to_1000 gives a multiple of 1000 nearest to the double
\* it is passed; a double exactly halfway between two multiples goes to the
\* even one (500 to 0, 1500 to 2000, 4500 to 4000).
C8_TiesRoundToEven ==
    /\ Allocated =>
        /\ \A f \in FundId :
            NearestHalfEven(FloatMulRatio(base_amount, FUND_RATIOS[f], 100), regular[f])
        /\ NearestHalfEven(FloatMulRatio(base_amount, JP_RATIO, 100), crash_fund_jp)
        /\ NearestHalfEven(FloatMulRatio(base_amount, OS_RATIO, 100), crash_fund_os)
    /\ Targeted =>
        /\ NearestHalfEven(FloatMulRatio(total_current, JP_RATIO, 100), target_jp)
        /\ NearestHalfEven(FloatMulRatio(total_current, OS_RATIO, 100), target_os)
        /\ \A f \in FundId :
            NearestHalfEven(FloatMulRatio(total_current, FUND_RATIOS[f], 100), target[f])

\* 30000 * 0.15 = 4500 is halfway and has gone down to 4000, 30000 * 0.05 =
\* 1500 is halfway and has gone up to 2000.
C8_Witness ==
    /\ Allocated
    /\ base_amount = 30000
    /\ Halfway(FloatMulRatio(base_amount, FUND_RATIOS["jp_stock"], 100))
    /\ regular["jp_stock"] = 4000
    /\ Halfway(FloatMulRatio(base_amount, FUND_RATIOS["jp_bond"], 100))
    /\ regular["jp_bond"] = 2000

\* The plan before the remainder is assigned.
Unreconciled ==
    IF rebalance_mode = BUDGET_BOUNDED
    THEN Distributed([f \in FundId |-> min_purchase], shortage_funds,
                     base_amount - min_purchase * 7)
    ELSE Distributed(regular, shortage_funds, additional_amount)

\* C9: when a plan is made, its seven amounts sum exactly to the intended
\* total, the monthly amount under BUDGET_BOUNDED and the monthly amount plus
\* the extra capital under EXTRA_CAPITAL; the rounding remainder goes to the
\* fund with the largest shortfall.
C9_PlanSumsToIntendedTotal ==
    Planned =>
        /\ rebalance_mode = BUDGET_BOUNDED =>
            (SumOver(next, FundId) = base_amount /\ total_investment = base_amount)
        /\ rebalance_mode = EXTRA_CAPITAL =>
            /\ SumOver(next, FundId) = base_amount + additional_amount
            /\ total_investment = base_amount + additional_amount
        /\ \A f \in FundId : f # LargestShortageFund(shortage_funds) =>
               next[f] = Unreconciled[f]

\* A plan whose rounded shares did not sum to the intended total: the
\* remainder has been assigned.
C9_Witness ==
    /\ Planned
    /\ rebalance_mode = BUDGET_BOUNDED
    /\ SumOver(Unreconciled, FundId) # base_amount
    /\ SumOver(next, FundId) = base_amount

\* C10: under BUDGET_BOUNDED every fund's planned amount is at least the
\* minimum purchase, also after the rounding remainder has been assigned.
C10_EveryFundAtLeastMinimum ==
    (Planned /\ rebalance_mode = BUDGET_BOUNDED) =>
        \A f \in FundId : next[f] >= min_purchase

\* The rebalance calculator has run to its end on holdings with a non-zero total.
Rebalanced == Targeted /\ pc # "plan"

\* C11 as stated: for holdings with a non-zero total, BUDGET_BOUNDED with
\* seven minimum purchases reaching or exceeding the monthly amount is a hard
\* failure: it is reported and no plan for the next purchase is produced.
C11_InsufficientBudgetReported ==
    (Rebalanced /\ rebalance_mode = BUDGET_BOUNDED /\ min_purchase * 7 >= base_amount) =>
        /\ rebalance_result = "insufficient"
        /\ pc = "stopped"
        /\ next = Zero /\ months_needed = << >>

\* The run is past the rebalance calculator.
PastRebalance == pc \in {"notify", "done", "stopped", "error"}

\* C12 as stated: with all seven holdings zero the rebalance calculator
\* reports that there are no holdings to rebalance and computes nothing
\* further: no targets, adjustments, classification, shortage list, plan or
\* duration.
C12_NoHoldingsReported ==
    (PastRebalance /\ current = Zero) =>
        /\ rebalance_result = "no_holdings"
        /\ total_current = 0 /\ target = Zero /\ adjust = Zero /\ balance = ""
        /\ shortage_funds = << >> /\ next = Zero /\ months_needed = << >> /\ max_months = 0

\* Every holding equals round_to_1000 of the holdings' total times the fund's fraction.
OnTarget ==
    LET total == SumOver(current, FundId)
    IN  /\ total > 0
        /\ \A f \in FundId :
               current[f] = round_to_1000(FloatMulRatio(total, FUND_RATIOS[f], 100))

\* C13: holdings that equal their computed targets exactly are classified
\* balanced and have an empty shortage list, so no plan is produced.
C13_OnTargetIsBalanced ==
    /\ (Targeted /\ OnTarget) =>
        /\ adjust = Zero
        /\ balance = "balanced"
        /\ ShortageFunds(adjust) = << >>
    /\ (Rebalanced /\ OnTarget) =>
        /\ shortage_funds = << >>
        /\ rebalance_result = "normal_allocation"
        /\ next = Zero /\ months_needed = << >> /\ max_months = 0

\* Holdings of 2000, 1000, 0, 4000, 2000, 1000, 0 are the targets of their
\* total 10000 and the calculator has finished on them.
C13_Witness ==
    /\ Rebalanced /\ OnTarget
    /\ total_current = 10000
    /\ current["jp_stock"] = 2000 /\ current["jp_bond"] = 0
    /\ rebalance_result = "normal_allocation"

\* The duration the calculator recommends for the holdings and monthly amount
\* of this run when the extra capital is e.
DurationWith(e) ==
    LET plan == Reconciled(Distributed(regular, shortage_funds, e), shortage_funds,
                           base_amount + e)
        details == FundDetails(plan)
    IN  MaxMonths([i \in 1..Len(details) |-> details[i][2]])

\* C14: under EXTRA_CAPITAL, for fixed holdings and monthly amount, a larger
\* extra capital never gives a longer recommended duration.
C14_MoreCapitalNeverLonger ==
    (Planned /\ rebalance_mode = EXTRA_CAPITAL) =>
        /\ max_months = DurationWith(additional_amount)
        /\ \A e2 \in ExtraAmounts :
               additional_amount <= e2 => DurationWith(e2) <= max_months

\* The data of a market signal could not be fetched.
FetchFailed ==
    \/ ~VixAvailable(vix_data)
    \/ ~HistAvailable(nikkei_hist)
    \/ ~HistAvailable(sp500_hist)

\* C15: a failed fetch of a market signal is not propagated as an error: the
\* run goes on to its end with both verdicts and the allocation result, and a
\* notification requested in the same run is composed and handed to
\* send_line_notify without the run raising, also when the VIX value itself
\* is unavailable.
C15_FetchFailureNotPropagated ==
    FetchFailed =>
        /\ pc # "error"
        /\ (pc = "done" /\ line_token /\ line_result # "") =>
               (message # None /\ line_result \in {"sent", "failed"})

\* y is a multiple of 1000 no further than 500 from cf * p / ratio.
NearestShare(y, cf, p, ratio) == y % 1000 = 0 /\ Abs(y * ratio - cf * p) <= 500 * ratio

\* C16: for a crashed market, each of its funds gets the additional amount
\* round_to_1000(crash fund * fraction / market ratio), whether the market is
\* crashed alone or together with the other one; a monthly amount of 300000
\* with Japan crashed gives a crash fund of 90000 and additional amounts of
\* 45000, 30000 and 15000.
C16_AdditionalAmounts ==
    Patterned =>
        /\ jp_crash => \A f \in HOME :
            /\ add[f] = round_to_1000(FloatMulDiv(crash_fund_jp, FUND_RATIOS[f], JP_RATIO))
            /\ NearestShare(add[f], crash_fund_jp, FUND_RATIOS[f], JP_RATIO)
        /\ us_crash => \A f \in FOREIGN :
            /\ add[f] = round_to_1000(FloatMulDiv(crash_fund_os, FUND_RATIOS[f], OS_RATIO))
            /\ NearestShare(add[f], crash_fund_os, FUND_RATIOS[f], OS_RATIO)
        /\ (base_amount = 300000 /\ jp_crash) =>
            /\ crash_fund_jp = 90000
            /\ add["jp_stock"] = 45000 /\ add["jp_reit"] = 30000 /\ add["jp_bond"] = 15000

\* 300000 a month and only Japan crashed: 45000, 30000 and 15000 are added.
C16_Witness ==
    /\ Patterned
    /\ base_amount = 300000
    /\ pattern = "pattern2"
    /\ crash_fund_jp = 90000
    /\ add["jp_stock"] = 45000 /\ add["jp_reit"] = 30000 /\ add["jp_bond"] = 15000

\* C17: for every monthly amount and every crashed market, the additional
\* amounts of the market's funds sum exactly to the market's crash fund, so
\* what the fund totals add over the regular amounts is what the stated
\* total adds over the monthly amount.
C17_AdditionalSumsToCrashFund ==
    Patterned =>
        /\ jp_crash => SumOver(add, HOME) = crash_fund_jp
        /\ us_crash => SumOver(add, FOREIGN) = crash_fund_os
        /\ SumOver(fund_total, FundId) - SumOver(regular, FundId)
               = total_with_crash - base_amount

\* C18: in every pattern with the US market crashed, the tax-advantaged part
\* of global_stock after the crash purchase (regular plus additional) never
\* exceeds the cap of 100000, and the two additional parts are non-negative
\* and sum to the additional global_stock amount.
C18_CapHoldsAfterCrash ==
    (Patterned /\ us_crash) =>
        /\ global_stock_tsumitate + global_stock_add_tsumitate <= TSUMITATE_LIMIT
        /\ global_stock_add_tsumitate >= 0 /\ global_stock_add_growth >= 0
        /\ global_stock_add_tsumitate + global_stock_add_growth = add["global_stock"]

\* C19 as stated: the holdings are classified balanced exactly when the
\* per-fund adjustments of the Japanese funds sum to less than 10000 in
\* absolute value and those of the overseas funds do too.
C19_BalancedByFundAdjustments ==
    Targeted =>
        (balance = "balanced") =
            (Abs(SumOver(adjust, HOME)) < 10000 /\ Abs(SumOver(adjust, FOREIGN)) < 10000)

\* C19, amended: the holdings are classified balanced exactly when the
\* market-level adjustments are both below 10000 in absolute value, the
\* adjustment of a market being round_to_1000 of the total times the market's
\* ratio (30 or 70 percent) minus the market's holdings; the per-fund targets
\* play no part.
C19_BalancedByMarketAdjustments ==
    Targeted =>
        /\ balance \in {"balanced", "unbalanced"}
        /\ (balance = "balanced") =
               /\ Abs(round_to_1000(FloatMulRatio(total_current, JP_RATIO, 100))
                      - SumOver(current, HOME)) < 10000
               /\ Abs(round_to_1000(FloatMulRatio(total_current, OS_RATIO, 100))
                      - SumOver(current, FOREIGN)) < 10000
        /\ (balance = "balanced") = (Abs(adjust_jp) < 10000 /\ Abs(adjust_os) < 10000)

\* Holdings of 14000 (Japan) and 3000 (overseas): the market adjustments are
\* -9000 and 9000 and the holdings are classified balanced, while the overseas
\* per-fund adjustments sum to 10000.
C19_Witness ==
    /\ Targeted
    /\ total_current = 17000
    /\ adjust_jp = 0 - 9000 /\ adjust_os = 9000
    /\ balance = "balanced"
    /\ SumOver(adjust, FOREIGN) = 10000

\* C20: for holdings with a non-zero total, each fund's target is
\* round_to_1000 of the total times the fund's fraction and its adjustment is
\* the target minus the holding; the seven targets sum to round_to_1000 of
\* the total give or take 3500, and so the adjustments sum to zero give or
\* take 3500.
C20_TargetsAndAdjustments ==
    Targeted =>
        /\ total_current = SumOver(current, FundId)
        /\ \A f \in FundId :
            /\ target[f] = round_to_1000(Exact(total_current, FUND_RATIOS[f]))
            /\ NearestThousand(target[f], total_current, FUND_RATIOS[f])
            /\ adjust[f] = target[f] - current[f]
        /\ Abs(SumOver(target, FundId) - round_to_1000(Whole(total_current))) <= 3500
        /\ Abs(SumOver(adjust, FundId)) <= 3500

\* Holdings whose targets do not sum to their total: the adjustments do not
\* cancel out.
C20_Witness ==
    /\ Targeted
    /\ SumOver(target, FundId) # round_to_1000(Whole(total_current))
    /\ SumOver(adjust, FundId) # 0
    /\ \E f \in FundId : adjust[f] > 0
    /\ \E f \in FundId : adjust[f] < 0

\* What the plan starts from for each fund: the minimum purchase under
\* BUDGET_BOUNDED, the regular amount under EXTRA_CAPITAL.
Baseline ==
    IF rebalance_mode = BUDGET_BOUNDED THEN [f \in FundId |-> min_purchase] ELSE regular

\* The total the plan is meant to have.
IntendedTotal ==
    IF rebalance_mode = BUDGET_BOUNDED THEN base_amount ELSE base_amount + additional_amount

\* C21: under both strategies only funds with a positive adjustment get a
\* share: every fund whose adjustment is zero or negative gets exactly its
\* baseline in the plan, the minimum purchase under BUDGET_BOUNDED and its
\* regular amount under EXTRA_CAPITAL, and the rounding remainder is never put
\* on such a fund.
C21_OnlyShortFundsGetShares ==
    Planned =>
        /\ \A f \in FundId : adjust[f] <= 0 => next[f] = Baseline[f]
        /\ \A f \in FundId : next[f] # Unreconciled[f] =>
               (adjust[f] > 0 /\ f = LargestShortageFund(shortage_funds))
        /\ \A i \in 1..Len(shortage_funds) : adjust[shortage_funds[i][1]] > 0

\* An EXTRA_CAPITAL plan with a fund over its target and a remainder that had
\* to be assigned: the fund over target has its regular amount.
C21_Witness ==
    /\ Planned
    /\ rebalance_mode = EXTRA_CAPITAL
    /\ SumOver(Unreconciled, FundId) # IntendedTotal
    /\ \E f \in FundId : adjust[f] < 0 /\ regular[f] > 0 /\ next[f] = regular[f]
    /\ \E f \in FundId : adjust[f] > 0 /\ next[f] > regular[f]

\* C22: under EXTRA_CAPITAL every fund keeps its regular amount: no fund's
\* planned amount is below its regular amount, also after the rounding
\* remainder has been put on the fund with the largest shortage.
C22_RegularAmountKept ==
    (Planned /\ rebalance_mode = EXTRA_CAPITAL) =>
        \A f \in FundId : next[f] >= regular[f]

\* The shortage funds that get more than their regular amount, in fund order.
CountedFunds == SelectSeq(FUNDS, LAMBDA f : adjust[f] > 0 /\ next[f] - regular[f] > 0)

\* m is the least number of purchases of `additional` that reach `shortage`.
IsCeiling(m, shortage, additional) ==
    /\ m * additional >= shortage
    /\ (m - 1) * additional < shortage

\* C23: for each shortage fund whose planned amount exceeds its regular
\* amount, the months needed are the shortage divided by that excess, rounded
\* up; the recommended duration is the largest of these months over exactly
\* those funds, and 0 when there is none.
C23_MonthsAreCeilings ==
    Planned =>
        /\ Len(months_needed) = Len(CountedFunds)
        /\ Len(fund_details) = Len(CountedFunds)
        /\ \A i \in 1..Len(CountedFunds) :
            LET f == CountedFunds[i]
            IN  /\ fund_details[i][1] = f
                /\ fund_details[i][2] = months_needed[i]
                /\ IsCeiling(months_needed[i], adjust[f], next[f] - regular[f])
        /\ \A i \in 1..Len(months_needed) : months_needed[i] <= max_months
        /\ months_needed # << >> => \E i \in 1..Len(months_needed) : months_needed[i] = max_months
        /\ months_needed = << >> => max_months = 0

\* A plan in which some fund's shortage is not a multiple of its excess, so
\* that the division is rounded up, and the duration is more than one month.
C23_Witness ==
    /\ Planned
    /\ max_months > 1
    /\ \E i \in 1..Len(CountedFunds) :
           LET f == CountedFunds[i]
           IN  adjust[f] % (next[f] - regular[f]) # 0
    /\ \E i, j \in 1..Len(months_needed) : months_needed[i] < months_needed[j]

\* The shortage funds that get no more than their regular amount.
UncountedFunds == {f \in FundId : adjust[f] > 0 /\ next[f] - regular[f] <= 0}

\* The funds the duration estimate names.
NamedFunds == {fund_details[i][1] : i \in 1..Len(fund_details)}

\* C24: every shortage fund whose planned amount does not exceed its regular
\* amount is left out of the months, and the result names it: the fund is
\* identified in the details of the estimate instead of being dropped.
C24_UncountedFundsSurfaced ==
    Planned =>
        /\ \A i \in 1..Len(CountedFunds) : CountedFunds[i] \notin UncountedFunds
        /\ Len(months_needed) = Len(CountedFunds)
        /\ UncountedFunds \subseteq NamedFunds

\* The run is in or past the plan step of a BUDGET_BOUNDED rebalance whose
\* monthly amount does not exceed seven minimum purchases, with a fund short.
InsufficientBudget ==
    /\ Rebalanced
    /\ shortage_funds # << >>
    /\ rebalance_mode = BUDGET_BOUNDED
    /\ ~BudgetSufficient(base_amount, min_purchase)

\* Nothing of the plan, the duration or the notification has been produced.
NothingAfterRebalance ==
    /\ next = Zero /\ total_investment = 0
    /\ months_needed = << >> /\ fund_details = << >> /\ max_months = 0
    /\ line_token = FALSE /\ message = None /\ line_result = ""

\* C25: when BUDGET_BOUNDED fails because the monthly amount is at most seven
\* minimum purchases while some fund is short, the run halts at that step: it
\* produces no plan and no duration, it never takes a further step and so
\* never reaches the notification section, and the halting step leaves the
\* crash verdicts and the crash allocations as they were computed.
C25_InsufficientBudgetHalts ==
    /\ [](InsufficientBudget => (pc = "stopped" /\ rebalance_result = "insufficient"))
    /\ [](pc = "stopped" => (InsufficientBudget /\ NothingAfterRebalance))
    /\ [][pc # "stopped"]_vars
    /\ [][pc' = "stopped" => UNCHANGED <<allocVars, vixVars, jpVars, usVars, patternVars>>]_vars

\* A halted run in a crashing market: both verdicts are crashes and crash
\* money has been allocated to the funds before the halt.
C25_Witness ==
    /\ pc = "stopped"
    /\ rebalance_result = "insufficient"
    /\ jp_crash /\ us_crash
    /\ pattern # ""
    /\ \E f \in FundId : add[f] > 0
    /\ total_with_crash > base_amount

====
